---- MODULE Spec2Model ----
(***************************************************************************)
(* Model of raptor_serialize.c: the serializer factory registry, the       *)
(* serializer object lifecycle (new / start_to_* / set_namespace /         *)
(* statement / end / free) and the resources it owns (iostreams, base URI  *)
(* copies, option strings, backend context).                               *)
(*                                                                         *)
(* Pointers are indices into the heap sequences below; 0 is NULL.          *)
(* Backend hooks, allocators and the iostream constructors are external:   *)
(* their results are drawn nondeterministically.                           *)
(***************************************************************************)
EXTENDS Integers, Sequences, FiniteSets, TLC

\* ---------------------------------------------------------------- bounds
MaxStreams == 2
MaxUris == 1
MaxStrings == 2
MaxFactories == 2

NULL == 0

\* the NULL pointer where the pointee is a caller's C string or URI
NULLS == "(null)"

\* results a backend hook may return: 0 is success, anything else failure
\* (2 keeps a hook's failure apart from the generic layer's own 1)
HookResults == {0, 2}

\* base URIs a caller may pass to start_to_*; NULLS is "no base URI"
CallerUris == {NULLS, "http://example.org/base"}

\* file names a caller may pass to start_to_filename
Filenames == {"out.rdf"}

\* names a caller may pass to raptor_new_serializer; NULLS asks for the default
NameInputs == {NULLS, "rdfxml", "application/rdf+xml", "nosuch"}

\* --------------------------------------------------------------- registry
\* A serializer factory as the generic layer sees it: its keys and which of
\* the optional hooks the backend's registration function filled in.
Factory(start, end, ns, nsns) ==
  [id |-> 1, name |-> "rdfxml", label |-> "RDF/XML",
   mime_type |-> NULLS, alias |-> "application/rdf+xml",
   uri_string |-> NULLS, finish_factory |-> TRUE,
   serialize_start |-> start, serialize_end |-> end,
   declare_namespace |-> ns, declare_namespace_from_namespace |-> nsns]

\* the backends the world may hold: every optional hook occurs present and
\* absent, and each namespace hook occurs without the other
Factories ==
  {Factory(TRUE, TRUE, TRUE, TRUE), Factory(FALSE, FALSE, FALSE, FALSE),
   Factory(TRUE, FALSE, TRUE, FALSE), Factory(FALSE, TRUE, FALSE, TRUE)}

\* strcmp() == 0 on two non-NULL C strings
StrEq(a, b) == a = b

RECURSIVE FactoryScan(_, _, _)
RECURSIVE FactoryScanNameOnly(_, _, _)
FactoryScanNameOnly(seq, name, i) ==
  IF i > Len(seq) THEN NULL
  ELSE IF StrEq(seq[i].name, name)
       THEN i
       ELSE FactoryScanNameOnly(seq, name, i + 1)

\* the scan of raptor_get_serializer_factory from position i on
FactoryScan(seq, name, i) ==
  IF i > Len(seq) THEN NULL
  ELSE IF StrEq(seq[i].name, name)
          \/ (seq[i].alias # NULLS /\ StrEq(seq[i].alias, name))
       THEN i
       ELSE FactoryScan(seq, name, i + 1)

\* index of the factory found, NULL if there is none
raptor_get_serializer_factory(seq, name) ==
  IF name = NULLS
  THEN (IF Len(seq) >= 1 THEN 1 ELSE NULL)
  ELSE FactoryScan(seq, name, 1)

\* ------------------------------------------------------------------ state
VARIABLES
  serializers,     \* world->serializers: sequence of factories
  rdf_serializer,  \* the serializer object (id = 0: no object exists)
  construct,       \* the latest raptor_new_serializer call: what it
                   \* allocated and what has been released of it since
  streams,         \* every iostream ever created: who made it, close count
  uris,            \* every base-URI reference taken: value, free count
  strings,         \* every option-string buffer allocated: value, free count
  registry,        \* whether world->serializers is NULL, and every factory
                   \* handed to raptor_free_serializer_factory so far
  op               \* the last API call: name, result, hooks it invoked

vars == <<serializers, rdf_serializer, construct, streams, uris, strings, registry, op>>

\* the world's part of the state
world == <<serializers, registry>>

StringFields ==
  {"option_resource_border", "option_literal_border", "option_bnode_border",
   "option_resource_fill", "option_literal_fill", "option_bnode_fill",
   "option_json_callback", "option_json_extra_data", "option_rss_triples",
   "option_atom_entry_uri"}

\* a zero-filled raptor_serializer record (RAPTOR_CALLOC), id 0 = no object
ZeroSerializer ==
  [id |-> 0, factory |-> NULL, context |-> NULL,
   base_uri |-> NULL, locator |-> [uri |-> NULL, line |-> 0, column |-> 0],
   iostream |-> NULL, free_iostream_on_end |-> 0,
   option_write_base_uri |-> 0, option_relative_uris |-> 0,
   xml_version |-> 0, option_write_xml_declaration |-> 0,
   option_prefix_elements |-> 0,
   option_resource_border |-> NULL, option_literal_border |-> NULL,
   option_bnode_border |-> NULL, option_resource_fill |-> NULL,
   option_literal_fill |-> NULL, option_bnode_fill |-> NULL,
   option_json_callback |-> NULL, option_json_extra_data |-> NULL,
   option_rss_triples |-> NULL, option_atom_entry_uri |-> NULL]

ZeroConstruct ==
  [found |-> FALSE, rec_allocs |-> 0, rec_frees |-> 0,
   ctx_allocs |-> 0, ctx_frees |-> 0,
   init_calls |-> 0, terminate_calls |-> 0, returned |-> FALSE]

\* one backend hook invocation: which hook, what it returned, and the prefix
\* argument where the hook takes one
Hook(name, rc, arg) == [hook |-> name, rc |-> rc, arg |-> arg]

\* note: where inside the call an external collaborator failed ("" if none)
\* arg, out: the arguments and out-parameters the registry calls record
CallIO(name, ret, hooks, note, arg, out) ==
  [name |-> name, ret |-> ret, hooks |-> hooks, note |-> note,
   arg |-> arg, out |-> out]

Call(name, ret, hooks, note) == CallIO(name, ret, hooks, note, <<>>, <<>>)

\* raptor_free_uri / RAPTOR_FREE on a heap cell; NULL is skipped by callers
FreeAt(heap, p) ==
  IF p = NULL THEN heap ELSE [heap EXCEPT ![p].frees = @ + 1]

\* the registry after raptor_serializers_init made the sequence
LiveRegistry == [is_null |-> FALSE, freed |-> <<>>]

\* the factory record behind rdf_serializer->factory
FactoryOf(s) == serializers[s.factory]

Init ==
  /\ \E f \in Factories : serializers = <<f>>
  /\ rdf_serializer = ZeroSerializer
  /\ construct = ZeroConstruct
  /\ streams = <<>>
  /\ uris = <<>>
  /\ strings = <<>>
  /\ registry = LiveRegistry
  /\ op = Call("init", 0, <<>>, "")

\* ------------------------------------------------------------- destructor
\* hooks raptor_free_serializer invokes on s
free_serializer_hooks(s) ==
  IF s.factory # NULL THEN <<Hook("terminate", 0, NULLS)>> ELSE <<>>

\* raptor_free_serializer with the release of the JSON callback string left out
raptor_free_serializer_leaks_string(s, c) ==
  /\ construct' =
       [c EXCEPT !.terminate_calls = @ + (IF s.factory # NULL THEN 1 ELSE 0),
                 !.ctx_frees = @ + (IF s.context # NULL THEN 1 ELSE 0),
                 !.rec_frees = @ + 1]
  /\ uris' = FreeAt(uris, s.base_uri)
  /\ strings' =
       [i \in DOMAIN strings |->
          [strings[i] EXCEPT
             !.frees = @ + Cardinality({f \in StringFields \ {"option_json_callback"} :
                                          s[f] = i})]]

\* raptor_free_serializer with the release of the backend context left out
raptor_free_serializer_keeps_context(s, c) ==
  /\ construct' =
       [c EXCEPT !.terminate_calls = @ + (IF s.factory # NULL THEN 1 ELSE 0),
                 !.rec_frees = @ + 1]
  /\ uris' = FreeAt(uris, s.base_uri)
  /\ strings' =
       [i \in DOMAIN strings |->
          [strings[i] EXCEPT
             !.frees = @ + Cardinality({f \in StringFields : s[f] = i})]]

\* raptor_free_serializer(s); c is the accounting record of s
raptor_free_serializer(s, c) ==
  /\ construct' =
       [c EXCEPT !.terminate_calls = @ + (IF s.factory # NULL THEN 1 ELSE 0),
                 !.ctx_frees = @ + (IF s.context # NULL THEN 1 ELSE 0),
                 !.rec_frees = @ + 1]
  /\ uris' = FreeAt(uris, s.base_uri)
  /\ strings' =
       [i \in DOMAIN strings |->
          [strings[i] EXCEPT
             !.frees = @ + Cardinality({f \in StringFields : s[f] = i})]]

\* ------------------------------------------------------------ constructor
\* the fields raptor_new_serializer sets after the context allocation
new_serializer_defaults_no_declaration(s, factory) ==
  [s EXCEPT !.factory = factory,
            !.option_write_base_uri = 1,
            !.option_relative_uris = 1,
            !.xml_version = 10,
            !.option_prefix_elements = 0]

\* the fields raptor_new_serializer sets on the calloc'ed object
new_serializer_defaults(s, factory) ==
  [s EXCEPT !.factory = factory,
            !.option_write_base_uri = 1,
            !.option_relative_uris = 1,
            !.xml_version = 10,
            !.option_write_xml_declaration = 1,
            !.option_prefix_elements = 0]

raptor_new_serializer(name, rec_ok, ctx_ok, init_rc) ==
  LET factory == raptor_get_serializer_factory(serializers, name)
      c0 == [ZeroConstruct EXCEPT !.found = (factory # NULL)]
  IN
  IF factory = NULL
  THEN /\ construct' = c0
       /\ op' = Call("new", NULL, <<>>, "")
       /\ UNCHANGED <<world, rdf_serializer, streams, uris, strings>>
  ELSE IF ~rec_ok
  THEN /\ construct' = c0
       /\ op' = Call("new", NULL, <<>>, "")
       /\ UNCHANGED <<world, rdf_serializer, streams, uris, strings>>
  ELSE IF ~ctx_ok
  THEN LET s == [ZeroSerializer EXCEPT !.id = 1]
       IN /\ raptor_free_serializer(s, [c0 EXCEPT !.rec_allocs = 1])
          /\ op' = Call("new", NULL, free_serializer_hooks(s), "")
          /\ UNCHANGED <<world, rdf_serializer, streams>>
  ELSE LET s == new_serializer_defaults(
                  [ZeroSerializer EXCEPT !.id = 1, !.context = 1], factory)
           c1 == [c0 EXCEPT !.rec_allocs = 1, !.ctx_allocs = 1,
                            !.init_calls = 1]
       IN IF init_rc # 0
          THEN /\ raptor_free_serializer(s, c1)
               /\ op' = Call("new", NULL,
                             <<Hook("init", init_rc, NULLS)>>
                               \o free_serializer_hooks(s), "")
               /\ UNCHANGED <<world, rdf_serializer, streams>>
          ELSE /\ construct' = [c1 EXCEPT !.returned = TRUE]
               /\ rdf_serializer' = s
               /\ op' = Call("new", 1, <<Hook("init", init_rc, NULLS)>>, "")
               /\ UNCHANGED <<world, streams, uris, strings>>

\* a caller constructs a serializer (one object is driven at a time)
NewSerializer ==
  /\ rdf_serializer.id = 0
  /\ \E name \in NameInputs, rec_ok \in BOOLEAN, ctx_ok \in BOOLEAN,
        init_rc \in HookResults :
       raptor_new_serializer(name, rec_ok, ctx_ok, init_rc)

\* a base-URI reference has been released twice: the program has left
\* defined behaviour, and the calls that would release it again are not
\* followed any further
OverReleased == \E i \in DOMAIN uris : uris[i].frees > 1

\* a caller destroys the serializer it holds
FreeSerializer ==
  /\ rdf_serializer.id # 0
  /\ ~OverReleased
  /\ raptor_free_serializer(rdf_serializer, construct)
  /\ op' = Call("free", 0, free_serializer_hooks(rdf_serializer), "")
  /\ rdf_serializer' = ZeroSerializer
  /\ UNCHANGED <<world, streams>>

\* ------------------------------------------------------------------ start
\* what one API call on the serializer leaves behind
Outcome(s, U, S, ret, hooks, note) ==
  [s |-> s, uris |-> U, streams |-> S, ret |-> ret, hooks |-> hooks,
   note |-> note]

\* raptor_uri_copy / raptor_new_uri: a new owned URI reference, or NULL
UriRef(U, val) == IF val = NULLS THEN NULL ELSE Len(U) + 1
UriHeap(U, val) ==
  IF val = NULLS THEN U ELSE Append(U, [val |-> val, frees |-> 0])

\* raptor_new_iostream_to_*: a new iostream made by the serializer, or NULL
\* (the heap cell records who made the stream, not which constructor)
NewStream(S, kind, ok) == IF ok THEN Len(S) + 1 ELSE NULL
StreamHeap(S, kind, ok) ==
  IF ok THEN Append(S, [owner |-> "serializer", closes |-> 0]) ELSE S

\* raptor_uri_filename_to_uri_string
raptor_uri_filename_to_uri_string(filename) == "file://" \o filename

\* the tail shared by the four start functions: call the start hook if any
start_hook(f, s, U, S, rc) ==
  IF f.serialize_start
  THEN Outcome(s, U, S, rc, <<Hook("serialize_start", rc, NULLS)>>, "")
  ELSE Outcome(s, U, S, 0, <<>>, "")

raptor_serialize_start_to_iostream(s, U, S, uri, iostream, rc) ==
  LET U1 == FreeAt(U, s.base_uri)
  IN IF iostream = NULL
     THEN Outcome(s, U1, S, 1, <<>>, "iostream")
     ELSE LET u == UriRef(U1, uri)
              s1 == [s EXCEPT !.base_uri = u,
                              !.locator = [uri |-> u, line |-> 0, column |-> 0],
                              !.iostream = iostream]
          IN start_hook(FactoryOf(s), s1, UriHeap(U1, uri), S, rc)

\* ok = <<raptor_uri_filename_to_uri_string, raptor_new_uri,
\*        raptor_new_iostream_to_filename>> succeeded
raptor_serialize_start_to_filename(s, U, S, filename, ok, rc) ==
  IF ~ok[1]
  THEN Outcome(s, U, S, 1, <<>>, "uri_string")
  ELSE LET uri_string == raptor_uri_filename_to_uri_string(filename)
           val == IF ok[2] THEN uri_string ELSE NULLS
           U1 == FreeAt(U, s.base_uri)
           u == UriRef(U1, val)
           s1 == [s EXCEPT !.base_uri = u,
                           !.locator = [uri |-> u, line |-> 0, column |-> 0],
                           !.iostream = NewStream(S, "filename", ok[3])]
           S1 == StreamHeap(S, "filename", ok[3])
       IN IF s1.iostream = NULL
          THEN Outcome(s1, UriHeap(U1, val), S1, 1, <<>>, "iostream")
          ELSE start_hook(FactoryOf(s),
                          [s1 EXCEPT !.free_iostream_on_end = 1],
                          UriHeap(U1, val), S1, rc)

\* the same body taking no base URI from its uri argument
start_to_owned_without_uri(s, U, S, uri, kind, ios_ok, rc) ==
  LET U1 == FreeAt(U, s.base_uri)
      s1 == [s EXCEPT !.base_uri = NULL,
                      !.locator = [uri |-> NULL, line |-> 0, column |-> 0],
                      !.iostream = NewStream(S, kind, ios_ok)]
      S1 == StreamHeap(S, kind, ios_ok)
  IN IF s1.iostream = NULL
     THEN Outcome(s1, U1, S1, 1, <<>>, "iostream")
     ELSE start_hook(FactoryOf(s), [s1 EXCEPT !.free_iostream_on_end = 1],
                     U1, S1, rc)

\* raptor_serialize_start_to_string and raptor_serialize_start_to_file_handle
\* have the same body up to the iostream constructor they call
start_to_owned(s, U, S, uri, kind, ios_ok, rc) ==
  LET U1 == FreeAt(U, s.base_uri)
      u == UriRef(U1, uri)
      s1 == [s EXCEPT !.base_uri = u,
                      !.locator = [uri |-> u, line |-> 0, column |-> 0],
                      !.iostream = NewStream(S, kind, ios_ok)]
      S1 == StreamHeap(S, kind, ios_ok)
  IN IF s1.iostream = NULL
     THEN Outcome(s1, UriHeap(U1, uri), S1, 1, <<>>, "iostream")
     ELSE start_hook(FactoryOf(s), [s1 EXCEPT !.free_iostream_on_end = 1],
                     UriHeap(U1, uri), S1, rc)

raptor_serialize_start_to_string(s, U, S, uri, ios_ok, rc) ==
  start_to_owned(s, U, S, uri, "string", ios_ok, rc)

raptor_serialize_start_to_file_handle(s, U, S, uri, ios_ok, rc) ==
  start_to_owned(s, U, S, uri, "file_handle", ios_ok, rc)

\* ------------------------------------------------- statement, namespace, end
\* raptor_serialize_statement without its test for a bound iostream
raptor_serialize_statement_unchecked(s, U, S, rc) ==
  Outcome(s, U, S, rc, <<Hook("serialize_statement", rc, NULLS)>>, "")

\* raptor_serialize_statement unbinding the iostream when the hook fails
raptor_serialize_statement_drops_sink(s, U, S, rc) ==
  IF s.iostream = NULL
  THEN Outcome(s, U, S, 1, <<>>, "")
  ELSE Outcome(IF rc # 0 THEN [s EXCEPT !.iostream = NULL] ELSE s, U, S, rc,
               <<Hook("serialize_statement", rc, NULLS)>>, "")

raptor_serialize_statement(s, U, S, rc) ==
  IF s.iostream = NULL
  THEN Outcome(s, U, S, 1, <<>>, "")
  ELSE Outcome(s, U, S, rc, <<Hook("serialize_statement", rc, NULLS)>>, "")

raptor_serialize_set_namespace_keeps_empty_prefix(s, U, S, uri, prefix, rc) ==
  IF FactoryOf(s).declare_namespace
  THEN Outcome(s, U, S, rc,
               <<Hook("declare_namespace", rc, <<uri, prefix>>)>>, "")
  ELSE Outcome(s, U, S, 1, <<>>, "")

\* prefix: NULLS, "" or a non-empty string; the hook receives NULLS for "".
\* The hook's arg is what it was called with: <<uri, prefix>>
raptor_serialize_set_namespace(s, U, S, uri, prefix, rc) ==
  LET prefix1 == IF prefix # NULLS /\ prefix = "" THEN NULLS ELSE prefix
  IN IF FactoryOf(s).declare_namespace
     THEN Outcome(s, U, S, rc,
                  <<Hook("declare_namespace", rc, <<uri, prefix1>>)>>, "")
     ELSE Outcome(s, U, S, 1, <<>>, "")

\* a raptor_namespace and its accessors
Namespace(uri, prefix) == [uri |-> uri, prefix |-> prefix]
raptor_namespace_get_uri(nspace) == nspace.uri
raptor_namespace_get_prefix(nspace) == nspace.prefix

\* the namespace-object hook's arg is the namespace it was called with
raptor_serialize_set_namespace_from_namespace(s, U, S, nspace, rc) ==
  IF FactoryOf(s).declare_namespace_from_namespace
  THEN Outcome(s, U, S, rc,
               <<Hook("declare_namespace_from_namespace", rc, nspace)>>, "")
  ELSE IF FactoryOf(s).declare_namespace
  THEN Outcome(s, U, S, rc,
               <<Hook("declare_namespace", rc,
                      <<raptor_namespace_get_uri(nspace),
                        raptor_namespace_get_prefix(nspace)>>)>>, "")
  ELSE Outcome(s, U, S, 1, <<>>, "")

\* does raptor_serialize_end hand the bound iostream to raptor_free_iostream
end_frees_iostream(s) == s.free_iostream_on_end # 0

\* raptor_serialize_end returning early, before the close, when the hook fails
raptor_serialize_end_returns_early(s, U, S, rc) ==
  IF s.iostream = NULL
  THEN Outcome(s, U, S, 1, <<>>, "")
  ELSE LET has == FactoryOf(s).serialize_end
           S1 == IF end_frees_iostream(s)
                 THEN [S EXCEPT ![s.iostream].closes = @ + 1]
                 ELSE S
       IN IF has /\ rc # 0
          THEN Outcome(s, U, S, rc, <<Hook("serialize_end", rc, NULLS)>>, "")
          ELSE Outcome([s EXCEPT !.iostream = NULL], U, S1, 0,
                       IF has THEN <<Hook("serialize_end", rc, NULLS)>>
                       ELSE <<>>, "")

\* raptor_serialize_end leaving the iostream field set after the close
raptor_serialize_end_keeps_iostream(s, U, S, rc) ==
  IF s.iostream = NULL
  THEN Outcome(s, U, S, 1, <<>>, "")
  ELSE LET has == FactoryOf(s).serialize_end
           S1 == IF end_frees_iostream(s)
                 THEN [S EXCEPT ![s.iostream].closes = @ + 1]
                 ELSE S
       IN Outcome(s, U, S1, IF has THEN rc ELSE 0,
                  IF has THEN <<Hook("serialize_end", rc, NULLS)>> ELSE <<>>,
                  "")

\* raptor_serialize_end putting the numeric options back to their defaults
raptor_serialize_end_resets_options(s, U, S, rc) ==
  IF s.iostream = NULL
  THEN Outcome(s, U, S, 1, <<>>, "")
  ELSE LET has == FactoryOf(s).serialize_end
           S1 == IF end_frees_iostream(s)
                 THEN [S EXCEPT ![s.iostream].closes = @ + 1]
                 ELSE S
       IN Outcome([new_serializer_defaults(s, s.factory)
                     EXCEPT !.iostream = NULL], U, S1,
                  IF has THEN rc ELSE 0,
                  IF has THEN <<Hook("serialize_end", rc, NULLS)>> ELSE <<>>,
                  "")

raptor_serialize_end(s, U, S, rc) ==
  IF s.iostream = NULL
  THEN Outcome(s, U, S, 1, <<>>, "")
  ELSE LET has == FactoryOf(s).serialize_end
           S1 == IF end_frees_iostream(s)
                 THEN [S EXCEPT ![s.iostream].closes = @ + 1]
                 ELSE S
       IN Outcome([s EXCEPT !.iostream = NULL], U, S1,
                  IF has THEN rc ELSE 0,
                  IF has THEN <<Hook("serialize_end", rc, NULLS)>> ELSE <<>>,
                  "")

\* ---------------------------------------------------------------- options
\* the option catalog (raptor_option.c): the options valid for the
\* serializer area, and the options whose value is a string
SerializerOptions ==
  {"RAPTOR_OPTION_WRITE_BASE_URI", "RAPTOR_OPTION_RELATIVE_URIS",
   "RAPTOR_OPTION_WRITER_XML_VERSION", "RAPTOR_OPTION_WRITER_XML_DECLARATION",
   "RAPTOR_OPTION_PREFIX_ELEMENTS",
   "RAPTOR_OPTION_RESOURCE_BORDER", "RAPTOR_OPTION_LITERAL_BORDER",
   "RAPTOR_OPTION_BNODE_BORDER", "RAPTOR_OPTION_RESOURCE_FILL",
   "RAPTOR_OPTION_LITERAL_FILL", "RAPTOR_OPTION_BNODE_FILL",
   "RAPTOR_OPTION_JSON_CALLBACK", "RAPTOR_OPTION_JSON_EXTRA_DATA",
   "RAPTOR_OPTION_RSS_TRIPLES", "RAPTOR_OPTION_ATOM_ENTRY_URI"}

StringOptions ==
  {"RAPTOR_OPTION_RESOURCE_BORDER", "RAPTOR_OPTION_LITERAL_BORDER",
   "RAPTOR_OPTION_BNODE_BORDER", "RAPTOR_OPTION_RESOURCE_FILL",
   "RAPTOR_OPTION_LITERAL_FILL", "RAPTOR_OPTION_BNODE_FILL",
   "RAPTOR_OPTION_JSON_CALLBACK", "RAPTOR_OPTION_JSON_EXTRA_DATA",
   "RAPTOR_OPTION_RSS_TRIPLES", "RAPTOR_OPTION_ATOM_ENTRY_URI",
   "RAPTOR_OPTION_WWW_HTTP_CACHE_CONTROL", "RAPTOR_OPTION_WWW_HTTP_USER_AGENT"}

raptor_option_is_valid_for_area(option) == option \in SerializerOptions

raptor_option_value_is_numeric(option) == option \notin StringOptions

\* C strings are sequences of one-character strings; NULLS is the NULL pointer
Digits == <<"0", "1", "2", "3", "4", "5", "6", "7", "8", "9">>
IsDigit(ch) == \E d \in 1..10 : Digits[d] = ch
DigitVal(ch) == (CHOOSE d \in 1..10 : Digits[d] = ch) - 1

RECURSIVE AtoiDigits(_, _, _)
AtoiDigits(str, i, acc) ==
  IF i > Len(str) \/ ~IsDigit(str[i]) THEN acc
  ELSE AtoiDigits(str, i + 1, acc * 10 + DigitVal(str[i]))

RECURSIVE SkipSpace(_, _)
SkipSpace(str, i) ==
  IF i <= Len(str) /\ str[i] = " " THEN SkipSpace(str, i + 1) ELSE i

\* atoi() taking no sign
atoi_unsigned(str) ==
  LET i == SkipSpace(str, 1)
  IN AtoiDigits(str, i, 0)

\* atoi(): leading blanks, an optional sign, then the leading digits
atoi(str) ==
  LET i == SkipSpace(str, 1)
  IN IF i <= Len(str) /\ str[i] = "-" THEN 0 - AtoiDigits(str, i + 1, 0)
     ELSE IF i <= Len(str) /\ str[i] = "+" THEN AtoiDigits(str, i + 1, 0)
     ELSE AtoiDigits(str, i, 0)

\* what an option call leaves behind: the object, the string heap, the result
OptOutcome(s, H, ret) == [s |-> s, strings |-> H, ret |-> ret]

raptor_serializer_set_option_any_version(s, H, option, value) ==
  IF value < 0 \/ ~raptor_option_is_valid_for_area(option)
  THEN OptOutcome(s, H, -1)
  ELSE CASE option = "RAPTOR_OPTION_WRITE_BASE_URI" ->
              OptOutcome([s EXCEPT !.option_write_base_uri = value], H, 0)
         [] option = "RAPTOR_OPTION_RELATIVE_URIS" ->
              OptOutcome([s EXCEPT !.option_relative_uris = value], H, 0)
         [] option = "RAPTOR_OPTION_WRITER_XML_VERSION" ->
              OptOutcome([s EXCEPT !.xml_version = value], H, 0)
         [] option = "RAPTOR_OPTION_WRITER_XML_DECLARATION" ->
              OptOutcome([s EXCEPT !.option_write_xml_declaration = value],
                         H, 0)
         [] option = "RAPTOR_OPTION_PREFIX_ELEMENTS" ->
              OptOutcome([s EXCEPT !.option_prefix_elements = value], H, 0)
         [] OTHER -> OptOutcome(s, H, -1)

raptor_serializer_set_option_takes_negative(s, H, option, value) ==
  IF ~raptor_option_is_valid_for_area(option)
  THEN OptOutcome(s, H, -1)
  ELSE CASE option = "RAPTOR_OPTION_WRITE_BASE_URI" ->
              OptOutcome([s EXCEPT !.option_write_base_uri = value], H, 0)
         [] option = "RAPTOR_OPTION_RELATIVE_URIS" ->
              OptOutcome([s EXCEPT !.option_relative_uris = value], H, 0)
         [] option = "RAPTOR_OPTION_WRITER_XML_VERSION" ->
              OptOutcome(IF value = 10 \/ value = 11
                         THEN [s EXCEPT !.xml_version = value] ELSE s, H, 0)
         [] option = "RAPTOR_OPTION_WRITER_XML_DECLARATION" ->
              OptOutcome([s EXCEPT !.option_write_xml_declaration = value],
                         H, 0)
         [] option = "RAPTOR_OPTION_PREFIX_ELEMENTS" ->
              OptOutcome([s EXCEPT !.option_prefix_elements = value], H, 0)
         [] OTHER -> OptOutcome(s, H, -1)

raptor_serializer_set_option(s, H, option, value) ==
  IF value < 0 \/ ~raptor_option_is_valid_for_area(option)
  THEN OptOutcome(s, H, -1)
  ELSE CASE option = "RAPTOR_OPTION_WRITE_BASE_URI" ->
              OptOutcome([s EXCEPT !.option_write_base_uri = value], H, 0)
         [] option = "RAPTOR_OPTION_RELATIVE_URIS" ->
              OptOutcome([s EXCEPT !.option_relative_uris = value], H, 0)
         [] option = "RAPTOR_OPTION_WRITER_XML_VERSION" ->
              OptOutcome(IF value = 10 \/ value = 11
                         THEN [s EXCEPT !.xml_version = value] ELSE s, H, 0)
         [] option = "RAPTOR_OPTION_WRITER_XML_DECLARATION" ->
              OptOutcome([s EXCEPT !.option_write_xml_declaration = value],
                         H, 0)
         [] option = "RAPTOR_OPTION_PREFIX_ELEMENTS" ->
              OptOutcome([s EXCEPT !.option_prefix_elements = value], H, 0)
         [] OTHER -> OptOutcome(s, H, -1)

\* raptor_serializer_copy_string storing the copy without freeing *dest
raptor_serializer_copy_string_leaks_old(s, H, dest, src, malloc_ok) ==
  IF ~malloc_ok
  THEN OptOutcome([s EXCEPT ![dest] = NULL], H, -1)
  ELSE OptOutcome([s EXCEPT ![dest] = Len(H) + 1],
                  Append(H, [val |-> src, frees |-> 0]), 0)

\* raptor_serializer_copy_string on the field named dest; malloc_ok is
\* whether RAPTOR_MALLOC succeeds
raptor_serializer_copy_string(s, H, dest, src, malloc_ok) ==
  LET H1 == FreeAt(H, s[dest])
  IN IF ~malloc_ok
     THEN OptOutcome([s EXCEPT ![dest] = NULL], H1, -1)
     ELSE OptOutcome([s EXCEPT ![dest] = Len(H1) + 1],
                     Append(H1, [val |-> src, frees |-> 0]), 0)

\* the serializer field each string option is stored in
StringFieldOf(option) ==
  CASE option = "RAPTOR_OPTION_RESOURCE_BORDER" -> "option_resource_border"
    [] option = "RAPTOR_OPTION_LITERAL_BORDER" -> "option_literal_border"
    [] option = "RAPTOR_OPTION_BNODE_BORDER" -> "option_bnode_border"
    [] option = "RAPTOR_OPTION_RESOURCE_FILL" -> "option_resource_fill"
    [] option = "RAPTOR_OPTION_LITERAL_FILL" -> "option_literal_fill"
    [] option = "RAPTOR_OPTION_BNODE_FILL" -> "option_bnode_fill"
    [] option = "RAPTOR_OPTION_JSON_CALLBACK" -> "option_json_callback"
    [] option = "RAPTOR_OPTION_JSON_EXTRA_DATA" -> "option_json_extra_data"
    [] option = "RAPTOR_OPTION_RSS_TRIPLES" -> "option_rss_triples"
    [] option = "RAPTOR_OPTION_ATOM_ENTRY_URI" -> "option_atom_entry_uri"

\* the case labels of the string switch that fall through to RESOURCE_BORDER
FallThroughOptions ==
  {"RAPTOR_OPTION_SCANNING", "RAPTOR_OPTION_ALLOW_NON_NS_ATTRIBUTES",
   "RAPTOR_OPTION_ALLOW_OTHER_PARSETYPES", "RAPTOR_OPTION_ALLOW_BAGID",
   "RAPTOR_OPTION_ALLOW_RDF_TYPE_RDF_LIST",
   "RAPTOR_OPTION_NORMALIZE_LANGUAGE", "RAPTOR_OPTION_NON_NFC_FATAL",
   "RAPTOR_OPTION_WARN_OTHER_PARSETYPES", "RAPTOR_OPTION_CHECK_RDF_ID",
   "RAPTOR_OPTION_HTML_TAG_SOUP", "RAPTOR_OPTION_MICROFORMATS",
   "RAPTOR_OPTION_HTML_LINK", "RAPTOR_OPTION_WWW_TIMEOUT",
   "RAPTOR_OPTION_NO_NET", "RAPTOR_OPTION_WRITER_AUTO_INDENT",
   "RAPTOR_OPTION_WRITER_AUTO_EMPTY", "RAPTOR_OPTION_WRITER_INDENT_WIDTH",
   "RAPTOR_OPTION_WRITER_XML_VERSION", "RAPTOR_OPTION_WRITER_XML_DECLARATION"}

raptor_serializer_set_option_string(s, H, option, value, malloc_ok) ==
  IF value = NULLS \/ ~raptor_option_is_valid_for_area(option)
  THEN OptOutcome(s, H, -1)
  ELSE IF raptor_option_value_is_numeric(option)
  THEN raptor_serializer_set_option(s, H, option, atoi(value))
  ELSE IF option \in {"RAPTOR_OPTION_WRITE_BASE_URI",
                      "RAPTOR_OPTION_RELATIVE_URIS",
                      "RAPTOR_OPTION_PREFIX_ELEMENTS"}
  THEN OptOutcome(s, H, -1)
  ELSE IF option \in FallThroughOptions
  THEN raptor_serializer_copy_string(s, H, "option_resource_border", value,
                                     malloc_ok)
  ELSE IF option \in SerializerOptions \cap StringOptions
  THEN raptor_serializer_copy_string(s, H, StringFieldOf(option), value,
                                     malloc_ok)
  ELSE OptOutcome(s, H, -1)

\* (x != 0) as C evaluates it
NonZero(x) == IF x # 0 THEN 1 ELSE 0

raptor_serializer_get_option(s, option) ==
  IF ~raptor_option_is_valid_for_area(option) THEN -1
  ELSE IF ~raptor_option_value_is_numeric(option) THEN -1
  ELSE CASE option = "RAPTOR_OPTION_WRITE_BASE_URI" ->
              NonZero(s.option_write_base_uri)
         [] option = "RAPTOR_OPTION_RELATIVE_URIS" ->
              NonZero(s.option_relative_uris)
         [] option = "RAPTOR_OPTION_PREFIX_ELEMENTS" ->
              s.option_prefix_elements
         [] option = "RAPTOR_OPTION_WRITER_XML_VERSION" -> s.xml_version
         [] option = "RAPTOR_OPTION_WRITER_XML_DECLARATION" ->
              s.option_write_xml_declaration
         [] OTHER -> -1

\* the pointer returned: the field's buffer, NULL when there is none
raptor_serializer_get_option_string(s, option) ==
  IF ~raptor_option_is_valid_for_area(option) THEN NULL
  ELSE IF raptor_option_value_is_numeric(option) THEN NULL
  ELSE IF option \in SerializerOptions \cap StringOptions
  THEN s[StringFieldOf(option)]
  ELSE NULL

\* ---------------------------------------------------------------- actions
\* the caller's call returns: its outcome becomes the state
Return(name, r) ==
  /\ rdf_serializer' = r.s
  /\ uris' = r.uris
  /\ streams' = r.streams
  /\ op' = Call(name, r.ret, r.hooks, r.note)
  /\ UNCHANGED <<world, construct, strings>>

\* the same, recording the arguments the caller passed
ReturnOf(name, arg, r) ==
  /\ rdf_serializer' = r.s
  /\ uris' = r.uris
  /\ streams' = r.streams
  /\ op' = CallIO(name, r.ret, r.hooks, r.note, arg, <<>>)
  /\ UNCHANGED <<world, construct, strings>>

CanStart ==
  /\ rdf_serializer.id # 0
  /\ ~OverReleased

UriInputs == IF Len(uris) < MaxUris THEN CallerUris ELSE {NULLS}
StreamOks == IF Len(streams) < MaxStreams THEN BOOLEAN ELSE {FALSE}

\* the iostreams a caller may hand in: none, one of its own that is still
\* open, or a new one
CallerStreams ==
  {NULL} \cup {i \in DOMAIN streams :
                 streams[i].owner = "caller" /\ streams[i].closes = 0}
         \cup (IF Len(streams) < MaxStreams THEN {Len(streams) + 1} ELSE {})

StartToIostream ==
  /\ CanStart
  /\ \E uri \in UriInputs, iostream \in CallerStreams, rc \in HookResults :
       LET S == IF iostream > Len(streams)
                THEN Append(streams, [owner |-> "caller", closes |-> 0])
                ELSE streams
       IN ReturnOf("start_to_iostream", <<uri>>,
                 raptor_serialize_start_to_iostream(
                   rdf_serializer, uris, S, uri, iostream, rc))

StartToFilename ==
  /\ CanStart
  /\ \E filename \in Filenames, str_ok \in BOOLEAN,
        uri_ok \in (IF Len(uris) < MaxUris THEN BOOLEAN ELSE {FALSE}),
        ios_ok \in StreamOks, rc \in HookResults :
       ReturnOf("start_to_filename", <<filename>>,
              raptor_serialize_start_to_filename(
                rdf_serializer, uris, streams, filename,
                <<str_ok, uri_ok, ios_ok>>, rc))

StartToString ==
  /\ CanStart
  /\ \E uri \in UriInputs, ios_ok \in StreamOks, rc \in HookResults :
       ReturnOf("start_to_string", <<uri>>,
              raptor_serialize_start_to_string(
                rdf_serializer, uris, streams, uri, ios_ok, rc))

StartToFileHandle ==
  /\ CanStart
  /\ \E uri \in UriInputs, ios_ok \in StreamOks, rc \in HookResults :
       ReturnOf("start_to_file_handle", <<uri>>,
              raptor_serialize_start_to_file_handle(
                rdf_serializer, uris, streams, uri, ios_ok, rc))

SerializeStatement ==
  /\ rdf_serializer.id # 0
  /\ \E rc \in HookResults :
       Return("statement",
              raptor_serialize_statement(rdf_serializer, uris, streams, rc))

PrefixInputs == {"", "ex"}

\* the namespace URI a caller declares, and the namespace objects it holds
NamespaceUris == {"http://example.org/ns#"}
NamespaceInputs ==
  {Namespace("http://purl.org/dc/elements/1.1/", "dc"),
   Namespace("http://www.w3.org/1999/xhtml", NULLS)}

SetNamespace ==
  /\ rdf_serializer.id # 0
  /\ \E uri \in NamespaceUris, prefix \in PrefixInputs, rc \in HookResults :
       ReturnOf("set_namespace", <<uri, prefix>>,
                raptor_serialize_set_namespace(
                  rdf_serializer, uris, streams, uri, prefix, rc))

SetNamespaceFromNamespace ==
  /\ rdf_serializer.id # 0
  /\ \E nspace \in NamespaceInputs, rc \in HookResults :
       ReturnOf("set_namespace_from_namespace", <<nspace>>,
                raptor_serialize_set_namespace_from_namespace(
                  rdf_serializer, uris, streams, nspace, rc))

SerializeEnd ==
  /\ rdf_serializer.id # 0
  /\ \E rc \in HookResults :
       Return("end", raptor_serialize_end(rdf_serializer, uris, streams, rc))

\* the string options and values a caller sets in this model
StringOptionInputs ==
  {"RAPTOR_OPTION_RESOURCE_BORDER", "RAPTOR_OPTION_JSON_CALLBACK"}
StringValueInputs == {NULLS, <<"r", "e", "d">>}

SetOptionString ==
  /\ rdf_serializer.id # 0
  /\ \E option \in StringOptionInputs, value \in StringValueInputs,
        malloc_ok \in (IF Len(strings) < MaxStrings THEN BOOLEAN ELSE {FALSE}) :
       LET r == raptor_serializer_set_option_string(
                  rdf_serializer, strings, option, value, malloc_ok)
       IN /\ rdf_serializer' = r.s
          /\ strings' = r.strings
          /\ op' = CallIO("set_option_string", r.ret, <<>>, "",
                          <<option, value>>, <<>>)
          /\ UNCHANGED <<world, construct, streams, uris>>

\* the numeric and parser options a caller passes to the string setter, and
\* the decimal strings it passes for them
NumericStringOptionInputs ==
  {"RAPTOR_OPTION_WRITER_XML_VERSION", "RAPTOR_OPTION_PREFIX_ELEMENTS",
   "RAPTOR_OPTION_SCANNING"}
NumericStringInputs == {NULLS, <<"1", "1">>, <<"-", "1">>, <<"2">>}

SetOptionStringNumeric ==
  /\ rdf_serializer.id # 0
  /\ \E option \in NumericStringOptionInputs, value \in NumericStringInputs :
       LET r == raptor_serializer_set_option_string(
                  rdf_serializer, strings, option, value, TRUE)
       IN /\ rdf_serializer' = r.s
          /\ strings' = r.strings
          /\ op' = CallIO("set_option_string", r.ret, <<>>, "",
                          <<option, value>>, <<>>)
  /\ UNCHANGED <<world, construct, streams, uris>>

\* a caller that replaces string option values by other values
ReplacedValueInputs == {NULLS, <<"r", "e", "d">>, <<"b", "l", "u", "e">>}

SetOptionStringValue ==
  /\ rdf_serializer.id # 0
  /\ \E option \in StringOptionInputs, value \in ReplacedValueInputs,
        malloc_ok \in (IF Len(strings) < MaxStrings THEN BOOLEAN ELSE {FALSE}) :
       LET r == raptor_serializer_set_option_string(
                  rdf_serializer, strings, option, value, malloc_ok)
       IN /\ rdf_serializer' = r.s
          /\ strings' = r.strings
          /\ op' = CallIO("set_option_string", r.ret, <<>>, "",
                          <<option, value>>, <<>>)
  /\ UNCHANGED <<world, construct, streams, uris>>

\* the options and values a caller passes to the numeric setter: three with
\* a numeric field, a string option and a parser option
NumericOptionInputs ==
  {"RAPTOR_OPTION_WRITE_BASE_URI", "RAPTOR_OPTION_WRITER_XML_VERSION",
   "RAPTOR_OPTION_PREFIX_ELEMENTS", "RAPTOR_OPTION_RESOURCE_BORDER",
   "RAPTOR_OPTION_SCANNING"}
NumericValueInputs == {-1, 0, 2, 10, 11}

\* the options a caller reads
GetOptionInputs ==
  {"RAPTOR_OPTION_WRITE_BASE_URI", "RAPTOR_OPTION_RELATIVE_URIS",
   "RAPTOR_OPTION_WRITER_XML_VERSION", "RAPTOR_OPTION_WRITER_XML_DECLARATION",
   "RAPTOR_OPTION_PREFIX_ELEMENTS", "RAPTOR_OPTION_RESOURCE_BORDER",
   "RAPTOR_OPTION_JSON_CALLBACK", "RAPTOR_OPTION_SCANNING"}

SetOption ==
  /\ rdf_serializer.id # 0
  /\ \E option \in NumericOptionInputs, value \in NumericValueInputs :
       LET r == raptor_serializer_set_option(rdf_serializer, strings,
                                             option, value)
       IN /\ rdf_serializer' = r.s
          /\ strings' = r.strings
          /\ op' = CallIO("set_option", r.ret, <<>>, "",
                          <<option, value>>, <<>>)
  /\ UNCHANGED <<world, construct, streams, uris>>

GetOption ==
  /\ rdf_serializer.id # 0
  /\ \E option \in GetOptionInputs :
       op' = CallIO("get_option",
                    raptor_serializer_get_option(rdf_serializer, option),
                    <<>>, "", <<option>>, <<>>)
  /\ UNCHANGED <<world, rdf_serializer, construct, streams, uris, strings>>

GetOptionString ==
  /\ rdf_serializer.id # 0
  /\ \E option \in GetOptionInputs :
       op' = CallIO("get_option_string",
                    raptor_serializer_get_option_string(rdf_serializer, option),
                    <<>>, "", <<option>>, <<>>)
  /\ UNCHANGED <<world, rdf_serializer, construct, streams, uris, strings>>

Next ==
  \/ NewSerializer
  \/ StartToIostream
  \/ StartToFilename
  \/ StartToString
  \/ StartToFileHandle
  \/ SetNamespace
  \/ SetNamespaceFromNamespace
  \/ SerializeStatement
  \/ SerializeEnd
  \/ FreeSerializer

Spec == Init /\ [][Next]_vars

\* a caller that also sets string options, on a serializer it starts to a
\* memory buffer
NextOptions ==
  \/ NewSerializer
  \/ StartToString
  \/ SerializeEnd
  \/ SetOptionString
  \/ FreeSerializer

SpecOptions == Init /\ [][NextOptions]_vars

\* a caller that sets and reads options between construct and destroy
NextNumeric ==
  \/ NewSerializer
  \/ SetOption
  \/ GetOption
  \/ GetOptionString
  \/ SetOptionString
  \/ SetOptionStringNumeric
  \/ FreeSerializer

SpecNumeric == Init /\ [][NextNumeric]_vars

\* a caller that configures its serializer through the string setter, before
\* or during a session, each option once: xml_version 11, a resource border
ConfigureInputs ==
  {<<"RAPTOR_OPTION_WRITER_XML_VERSION", <<"1", "1">>>>,
   <<"RAPTOR_OPTION_RESOURCE_BORDER", <<"r", "e", "d">>>>}

\* the getters still return the option's default
Unconfigured(s, option) ==
  /\ raptor_serializer_get_option(s, option) \in {-1, 10}
  /\ raptor_serializer_get_option_string(s, option) = NULL

ConfigureOption ==
  /\ rdf_serializer.id # 0
  /\ \E input \in ConfigureInputs,
        malloc_ok \in (IF Len(strings) < MaxStrings THEN {TRUE} ELSE {FALSE}) :
       /\ Unconfigured(rdf_serializer, input[1])
       /\ LET r == raptor_serializer_set_option_string(
                     rdf_serializer, strings, input[1], input[2], malloc_ok)
          IN /\ rdf_serializer' = r.s
             /\ strings' = r.strings
             /\ op' = CallIO("set_option_string", r.ret, <<>>, "",
                             <<input[1], input[2]>>, <<>>)
  /\ UNCHANGED <<world, construct, streams, uris>>

\* a world holding one backend that has every optional hook
InitFrame ==
  /\ serializers = <<Factory(TRUE, TRUE, TRUE, TRUE)>>
  /\ rdf_serializer = ZeroSerializer
  /\ construct = ZeroConstruct
  /\ streams = <<>>
  /\ uris = <<>>
  /\ strings = <<>>
  /\ registry = LiveRegistry
  /\ op = Call("init", 0, <<>>, "")

\* one serializer configured and taken through sessions on every binding
NextFrame ==
  \/ NewSerializer
  \/ ConfigureOption
  \/ StartToIostream
  \/ StartToFilename
  \/ StartToString
  \/ StartToFileHandle
  \/ SetNamespace
  \/ SetNamespaceFromNamespace
  \/ SerializeStatement
  \/ SerializeEnd

SpecFrame == InitFrame /\ [][NextFrame]_vars

\* a caller that sets, replaces and reads string options
NextStrings ==
  \/ NewSerializer
  \/ SetOptionStringValue
  \/ GetOptionString
  \/ FreeSerializer

SpecStrings == Init /\ [][NextStrings]_vars

\* --------------------------------------------------- registry operations
\* what a backend's init function passes to raptor_serializer_register_factory
Registration(name, label, mime_type, alias, uri_string) ==
  [name |-> name, label |-> label, mime_type |-> mime_type,
   alias |-> alias, uri_string |-> uri_string]

\* the registrations attempted: one without alias, one with an alias of its
\* own, and one whose alias is another syntax's name
RegisterInputs ==
  {Registration("rdfxml", "RDF/XML", "application/rdf+xml", NULLS,
                "http://www.w3.org/TR/rdf-syntax-grammar"),
   Registration("ntriples", "N-Triples", "text/plain", "nt", NULLS),
   Registration("rdfxml-abbrev", "RDF/XML (Abbreviated)", NULLS, "rdfxml",
                NULLS)}

\* names a caller may look up
LookupNames == {NULLS, "rdfxml", "ntriples", "nt", "rdfxml-abbrev", "nosuch"}

\* the allocation of register that fails ("none": all succeed)
AllocFailures ==
  {"none", "factory", "name", "label", "mime_type", "uri_string", "alias",
   "push"}

\* what the registration function leaves behind: whether it installed a
\* finish_factory hook, and its result
FactoryInits == [finish_factory : BOOLEAN, rc : HookResults]

\* raptor_sequence_get_at(seq, i), i counted from 0: the element's index in
\* the model's 1-based sequence, NULL when out of range
raptor_sequence_get_at(seq, i) ==
  IF i >= 0 /\ i < Len(seq) THEN i + 1 ELSE NULL

\* factories allocated so far
Allocated == Len(serializers) + Len(registry.freed)

\* a calloc'ed raptor_serializer_factory
ZeroFactory(id) ==
  [id |-> id, name |-> NULLS, label |-> NULLS, mime_type |-> NULLS,
   alias |-> NULLS, uri_string |-> NULLS, finish_factory |-> FALSE,
   serialize_start |-> FALSE, serialize_end |-> FALSE,
   declare_namespace |-> FALSE, declare_namespace_from_namespace |-> FALSE]

FreeIf(present, what) == IF present THEN <<what>> ELSE <<>>

raptor_free_serializer_factory_finish_last(factory) ==
  FreeIf(factory.name # NULLS, "free name")
  \o FreeIf(factory.label # NULLS, "free label")
  \o FreeIf(factory.alias # NULLS, "free alias")
  \o FreeIf(factory.mime_type # NULLS, "free mime_type")
  \o FreeIf(factory.uri_string # NULLS, "free uri_string")
  \o FreeIf(factory.finish_factory, "finish_factory")
  \o <<"free factory">>

\* the steps of destroying one factory, in order
raptor_free_serializer_factory(factory) ==
  FreeIf(factory.finish_factory, "finish_factory")
  \o FreeIf(factory.name # NULLS, "free name")
  \o FreeIf(factory.label # NULLS, "free label")
  \o FreeIf(factory.alias # NULLS, "free alias")
  \o FreeIf(factory.mime_type # NULLS, "free mime_type")
  \o FreeIf(factory.uri_string # NULLS, "free uri_string")
  \o <<"free factory">>

\* raptor_free_sequence: the free handler the sequence was made with, on each
\* element from first to last
raptor_free_sequence(seq) ==
  [i \in 1..Len(seq) |->
     [id |-> seq[i].id, events |-> raptor_free_serializer_factory(seq[i])]]

\* the finish_factory hooks a run of destructions invoked
FinishHooks(freed) ==
  SelectSeq([i \in 1..Len(freed) |->
               IF \E k \in DOMAIN freed[i].events :
                    freed[i].events[k] = "finish_factory"
               THEN Hook("finish_factory", 0, freed[i].id)
               ELSE Hook("", 0, 0)],
            LAMBDA h : h.hook # "")

raptor_serializers_finish(seq, R) ==
  IF ~R.is_null
  THEN LET freed == raptor_free_sequence(seq)
       IN [serializers |-> <<>>,
           registry |-> [is_null |-> TRUE, freed |-> R.freed \o freed],
           hooks |-> FinishHooks(freed)]
  ELSE [serializers |-> seq, registry |-> R, hooks |-> <<>>]

name_registered_skips_last(seq, name) ==
  \E i \in 0..(Len(seq) - 2) :
    StrEq(seq[raptor_sequence_get_at(seq, i)].name, name)

\* the duplicate scan of register
name_registered(seq, name) ==
  \E i \in 0..(Len(seq) - 1) :
    StrEq(seq[raptor_sequence_get_at(seq, i)].name, name)

\* the string copies of register up to the first failing allocation; ok is
\* FALSE when one failed
register_copy(id, reg, fail_at) ==
  LET f0 == ZeroFactory(id)
      f1 == [f0 EXCEPT !.name = reg.name]
      f2 == [f1 EXCEPT !.label = reg.label]
      f3 == [f2 EXCEPT !.mime_type = reg.mime_type]
      f4 == [f3 EXCEPT !.uri_string = reg.uri_string]
      f5 == [f4 EXCEPT !.alias = reg.alias]
  IN IF fail_at = "name" THEN [ok |-> FALSE, factory |-> f0]
     ELSE IF fail_at = "label" THEN [ok |-> FALSE, factory |-> f1]
     ELSE IF fail_at = "mime_type" /\ reg.mime_type # NULLS
       THEN [ok |-> FALSE, factory |-> f2]
     ELSE IF fail_at = "uri_string" /\ reg.uri_string # NULLS
       THEN [ok |-> FALSE, factory |-> f3]
     ELSE IF fail_at = "alias" /\ reg.alias # NULLS
       THEN [ok |-> FALSE, factory |-> f4]
     ELSE [ok |-> TRUE, factory |-> f5]

RegOutcome(seq, R, ret, hooks, note) ==
  [serializers |-> seq, registry |-> R, ret |-> ret, hooks |-> hooks,
   note |-> note]

\* the registration function fills in the pushed factory's hooks
InitialisedFactory(f, init) ==
  [f EXCEPT !.finish_factory = init.finish_factory,
            !.serialize_start = TRUE, !.serialize_end = TRUE,
            !.declare_namespace = TRUE,
            !.declare_namespace_from_namespace = TRUE]

\* register after a successful push: factory(serializer) and its result
register_factory_call(seq, R, f, init) ==
  RegOutcome(Append(seq, InitialisedFactory(f, init)), R,
             IF init.rc # 0 THEN 1 ELSE 0,
             <<Hook("factory", init.rc, f.id)>>,
             IF init.rc # 0 THEN "factory" ELSE "")

raptor_serializer_register_factory(seq, R, id, reg, fail_at, init) ==
  IF name_registered(seq, reg.name)
  THEN RegOutcome(seq, R, 1, <<>>, "already registered")
  ELSE IF fail_at = "factory"
  THEN RegOutcome(seq, R, 1, <<>>, "calloc")
  ELSE LET c == register_copy(id, reg, fail_at)
           destroyed == [id |-> id,
                         events |-> raptor_free_serializer_factory(c.factory)]
       IN IF ~c.ok
          THEN RegOutcome(seq, [R EXCEPT !.freed = Append(@, destroyed)],
                          1, <<>>, "tidy")
          ELSE IF fail_at = "push"
          THEN RegOutcome(seq, [R EXCEPT !.freed = Append(@, destroyed)],
                          1, <<>>, "push")
          ELSE register_factory_call(seq, R, c.factory, init)

raptor_world_enumerate_serializers_from_one(seq, counter) ==
  LET factory == raptor_sequence_get_at(seq, counter - 1)
  IN IF factory = NULL
     THEN [ret |-> 1, out |-> <<>>]
     ELSE [ret |-> 0,
           out |-> <<seq[factory].name, seq[factory].label,
                     seq[factory].mime_type, seq[factory].uri_string>>]

\* out: name, label, mime_type, uri_string as stored through the pointers
raptor_world_enumerate_serializers(seq, counter) ==
  LET factory == raptor_sequence_get_at(seq, counter)
  IN IF factory = NULL
     THEN [ret |-> 1, out |-> <<>>]
     ELSE [ret |-> 0,
           out |-> <<seq[factory].name, seq[factory].label,
                     seq[factory].mime_type, seq[factory].uri_string>>]

raptor_world_is_serializer_name(seq, name) ==
  IF raptor_get_serializer_factory(seq, name) # NULL THEN 1 ELSE 0

\* ------------------------------------------------------ registry actions
UnchangedSerializer == UNCHANGED <<rdf_serializer, construct, streams, uris, strings>>

\* a backend's init function registers its syntax
RegisterFactory ==
  /\ ~registry.is_null
  /\ \E reg \in RegisterInputs, fail_at \in AllocFailures, init \in FactoryInits :
       /\ name_registered(serializers, reg.name) \/ Allocated < MaxFactories
       /\ LET r == raptor_serializer_register_factory(
                     serializers, registry, Allocated + 1, reg, fail_at, init)
          IN /\ serializers' = r.serializers
             /\ registry' = r.registry
             /\ op' = CallIO("register_factory", r.ret, r.hooks, r.note,
                             <<reg>>, <<>>)
  /\ UnchangedSerializer

\* out: the factory raptor_get_serializer_factory found
IsSerializerName ==
  /\ ~registry.is_null
  /\ \E name \in LookupNames :
       op' = CallIO("is_serializer_name",
                    raptor_world_is_serializer_name(serializers, name),
                    <<>>, "", <<name>>,
                    <<raptor_get_serializer_factory(serializers, name)>>)
  /\ UNCHANGED world
  /\ UnchangedSerializer

EnumerateSerializers ==
  /\ ~registry.is_null
  /\ \E counter \in 0..MaxFactories :
       LET r == raptor_world_enumerate_serializers(serializers, counter)
       IN op' = CallIO("enumerate_serializers", r.ret, <<>>, "",
                       <<counter>>, r.out)
  /\ UNCHANGED world
  /\ UnchangedSerializer

SerializersFinish ==
  /\ LET r == raptor_serializers_finish(serializers, registry)
     IN /\ serializers' = r.serializers
        /\ registry' = r.registry
        /\ op' = Call("serializers_finish", 0, r.hooks, "")
  /\ UnchangedSerializer

\* the world just after raptor_serializers_init made the empty sequence
InitRegistry ==
  /\ serializers = <<>>
  /\ rdf_serializer = ZeroSerializer
  /\ construct = ZeroConstruct
  /\ streams = <<>>
  /\ uris = <<>>
  /\ strings = <<>>
  /\ registry = LiveRegistry
  /\ op = Call("init", 0, <<>>, "")

NextRegistry ==
  \/ RegisterFactory
  \/ IsSerializerName
  \/ EnumerateSerializers
  \/ SerializersFinish

SpecRegistry == InitRegistry /\ [][NextRegistry]_vars

\* ----------------------------------------------------------------- claims
StartNames ==
  {"start_to_iostream", "start_to_filename", "start_to_string",
   "start_to_file_handle"}

\* the result of the single hook the last call invoked
HookResult(call) == call.hooks[1].rc

\* C1: an iostream the caller handed to start_to_iostream is never closed by
\* raptor_serialize_end (the model's caller closes nothing itself, so every
\* close counted on a caller's stream is one made by end)
C1_BorrowedStreamNeverClosed ==
  \A i \in DOMAIN streams :
    streams[i].owner = "caller" => streams[i].closes = 0

\* C2: when raptor_free_serializer has returned, every iostream the
\* serializer created has been closed exactly once
C2_OwnedStreamsClosedAtDestroy ==
  op.name = "free" =>
    \A i \in DOMAIN streams :
      streams[i].owner = "serializer" => streams[i].closes = 1

\* C3: raptor_serialize_end on a serializer with a bound iostream returns the
\* end hook's result (0 without an end hook) and, whatever that result is,
\* closes the iostream if the serializer created it and leaves no iostream
\* bound
C3_EndReleasesSink ==
  [][(op'.name = "end" /\ rdf_serializer.iostream # NULL) =>
       /\ IF FactoryOf(rdf_serializer).serialize_end
          THEN /\ Len(op'.hooks) = 1
               /\ op'.hooks[1].hook = "serialize_end"
               /\ op'.ret = HookResult(op')
          ELSE op'.hooks = <<>> /\ op'.ret = 0
       /\ streams[rdf_serializer.iostream].owner = "serializer" =>
            streams'[rdf_serializer.iostream].closes =
              streams[rdf_serializer.iostream].closes + 1
       /\ rdf_serializer'.iostream = NULL]_vars

\* an end whose hook failed has closed the serializer's only iostream
C3_Witness ==
  /\ op.name = "end" /\ op.ret = 2
  /\ rdf_serializer.iostream = NULL
  /\ Len(streams) = 1
  /\ streams[1].owner = "serializer" /\ streams[1].closes = 1

\* the second half of C4: an end right after an end fails with 1, invokes no
\* hook and closes nothing
SecondEndFails ==
  (op.name = "end" /\ op'.name = "end") =>
    /\ op'.ret = 1
    /\ op'.hooks = <<>>
    /\ streams' = streams

\* C4 as stated: an end right after a successful start succeeds and releases
\* the sink, and an end right after an end fails with 1, invokes no hook and
\* closes nothing
C4_ImmediateEndSucceeds ==
  [][/\ (op.name \in StartNames /\ op.ret = 0 /\ op'.name = "end") =>
          (op'.ret = 0 /\ rdf_serializer'.iostream = NULL)
     /\ SecondEndFails]_vars

\* C4 as amended: an end right after a successful start returns the end
\* hook's result, which is success when there is no end hook or the hook
\* succeeds, and releases the sink in either case; an end right after an end
\* fails with 1, invokes no hook and closes nothing
C4_ImmediateEndReturnsHookResult ==
  [][/\ (op.name \in StartNames /\ op.ret = 0 /\ op'.name = "end") =>
          /\ op'.ret = (IF op'.hooks = <<>> THEN 0 ELSE HookResult(op'))
          /\ op'.hooks = <<>> <=> ~FactoryOf(rdf_serializer).serialize_end
          /\ rdf_serializer'.iostream = NULL
          /\ rdf_serializer.free_iostream_on_end # 0 =>
               streams'[rdf_serializer.iostream].closes =
                 streams[rdf_serializer.iostream].closes + 1
     /\ SecondEndFails]_vars

\* an end that found no iostream bound, after an earlier end closed one
C4_Witness ==
  /\ op.name = "end" /\ op.ret = 1 /\ op.hooks = <<>>
  /\ rdf_serializer.id # 0 /\ rdf_serializer.iostream = NULL
  /\ Len(streams) = 1 /\ streams[1].closes = 1

\* C5: raptor_serialize_statement without a bound iostream fails with 1 and
\* invokes no hook; with one it invokes the statement hook and returns its
\* result
C5_StatementNeedsSink ==
  [][op'.name = "statement" =>
       IF rdf_serializer.iostream = NULL
       THEN op'.ret = 1 /\ op'.hooks = <<>>
       ELSE /\ Len(op'.hooks) = 1
            /\ op'.hooks[1].hook = "serialize_statement"
            /\ op'.ret = HookResult(op')]_vars

\* a statement refused after an end released the sink
C5_Witness ==
  /\ op.name = "statement" /\ op.ret = 1 /\ op.hooks = <<>>
  /\ rdf_serializer.iostream = NULL
  /\ \E i \in DOMAIN streams : streams[i].closes = 1

\* the last call was a start whose start hook returned failure
StartHookFailed(call) ==
  /\ call.name \in StartNames
  /\ call.hooks # <<>>
  /\ HookResult(call) # 0

\* C6: a start whose start hook fails returns that failure, and a
\* raptor_serialize_statement right after it fails with 1 without reaching
\* the statement hook
C6_FailedStartHookLeavesNoSink ==
  [][/\ StartHookFailed(op') => op'.ret = HookResult(op')
     /\ (StartHookFailed(op) /\ op'.name = "statement") =>
          (op'.ret = 1 /\ op'.hooks = <<>>)]_vars

\* C7: a start whose iostream could not be made (or was passed as NULL) fails
\* with 1 and leaves iostream, free_iostream_on_end, base_uri and locator as
\* they were, the base URI still being the live reference it was
C7_FailedSinkChangesNothing ==
  [][(op'.name \in StartNames /\ op'.note = "iostream") =>
       /\ op'.ret = 1
       /\ rdf_serializer'.iostream = rdf_serializer.iostream
       /\ rdf_serializer'.free_iostream_on_end =
            rdf_serializer.free_iostream_on_end
       /\ rdf_serializer'.base_uri = rdf_serializer.base_uri
       /\ rdf_serializer'.locator = rdf_serializer.locator
       /\ uris' = uris]_vars

\* C8: a namespace declaration on a serializer without a bound iostream
\* fails and invokes no backend hook
C8_NamespaceNeedsSink ==
  [][(op'.name \in {"set_namespace", "set_namespace_from_namespace"}
      /\ rdf_serializer.iostream = NULL) =>
       (op'.ret # 0 /\ op'.hooks = <<>>)]_vars

\* C9: raptor_free_serializer, whether or not an iostream is bound, invokes
\* terminate once, releases the context once, and releases once every option
\* string the serializer holds
C9_DestroyReleasesOnce ==
  [][op'.name = "free" =>
       /\ Len(op'.hooks) = 1 /\ op'.hooks[1].hook = "terminate"
       /\ construct'.terminate_calls = 1
       /\ construct'.ctx_allocs = 1 /\ construct'.ctx_frees = 1
       /\ construct'.rec_allocs = 1 /\ construct'.rec_frees = 1
       /\ \A f \in StringFields :
            rdf_serializer[f] # NULL =>
              /\ strings[rdf_serializer[f]].frees = 0
              /\ strings'[rdf_serializer[f]].frees = 1]_vars

\* a serializer destroyed with two option strings set and its iostream
\* still bound and open
C9_Witness ==
  /\ op.name = "free"
  /\ Len(strings) = 2
  /\ strings[1].frees = 1 /\ strings[2].frees = 1
  /\ construct.terminate_calls = 1
  /\ \E i \in DOMAIN streams :
       streams[i].owner = "serializer" /\ streams[i].closes = 0

\* C10: a raptor_new_serializer that fails returns no object and has released
\* once what it allocated (record, context); an unknown name fails without
\* any backend hook being invoked
C10_FailedConstructUnwinds ==
  (op.name = "new" /\ op.ret = NULL) =>
    /\ rdf_serializer.id = 0
    /\ ~construct.returned
    /\ construct.rec_frees = construct.rec_allocs
    /\ construct.ctx_frees = construct.ctx_allocs
    /\ ~construct.found =>
         (op.hooks = <<>> /\ construct.init_calls = 0
          /\ construct.terminate_calls = 0)

\* a construct whose init hook failed, with record and context released
C10_Witness ==
  /\ op.name = "new" /\ op.ret = NULL
  /\ construct.init_calls = 1
  /\ construct.ctx_allocs = 1 /\ construct.ctx_frees = 1
  /\ construct.rec_allocs = 1 /\ construct.rec_frees = 1

\* ------------------------------------------------------- registry claims
UniqueNames(seq) ==
  \A i, j \in DOMAIN seq : StrEq(seq[i].name, seq[j].name) => i = j

\* the registered factories carrying a name
Named(seq, name) == {i \in DOMAIN seq : StrEq(seq[i].name, name)}

\* C11: registering a name that a registered factory already has fails, calls
\* no registration function and changes nothing in the world, and after every
\* registration no two registered factories share a name (so exactly one
\* carries the rejected name)
C11_DuplicateNameRejected ==
  [][op'.name = "register_factory" =>
       /\ UniqueNames(serializers')
       /\ Named(serializers, op'.arg[1].name) # {} =>
            /\ op'.ret # 0
            /\ op'.hooks = <<>>
            /\ UNCHANGED world
            /\ Cardinality(Named(serializers', op'.arg[1].name)) = 1]_vars

C11_Witness ==
  /\ op.name = "register_factory"
  /\ op.note = "already registered"
  /\ Named(serializers, op.arg[1].name) # {}

Min(S) == CHOOSE x \in S : \A y \in S : x <= y

\* the reference lookup over the registration-ordered list
LookupReference(seq, name) ==
  LET matches == {i \in DOMAIN seq : seq[i].name = name \/ seq[i].alias = name}
  IN IF name = NULLS
     THEN (IF seq = <<>> THEN NULL ELSE 1)
     ELSE IF matches = {} THEN NULL ELSE Min(matches)

\* C12: a lookup returns what the reference lookup returns: without a name
\* the first registered factory or nothing when none is registered, with a
\* name the lowest-index factory whose name or alias equals it, or nothing
C12_LookupMatchesReference ==
  op.name = "is_serializer_name" =>
    /\ op.out[1] = LookupReference(serializers, op.arg[1])
    /\ op.ret = (IF LookupReference(serializers, op.arg[1]) = NULL
                 THEN 0 ELSE 1)

\* a lookup that an alias answered ahead of a later factory's name
C12_Witness ==
  /\ op.name = "is_serializer_name"
  /\ op.arg[1] = "rdfxml"
  /\ op.out[1] = 1
  /\ Len(serializers) = 2
  /\ serializers[1].name # "rdfxml"
  /\ serializers[2].name = "rdfxml"

\* C13: once a registration with a name and an alias has succeeded, lookup by
\* that name and lookup by that alias find the same factory
C13_NameAndAliasFindSame ==
  [][(/\ op'.name = "register_factory"
      /\ op'.ret = 0
      /\ op'.arg[1].alias # NULLS) =>
       raptor_get_serializer_factory(serializers', op'.arg[1].name)
         = raptor_get_serializer_factory(serializers', op'.arg[1].alias)]_vars

\* no factory still registered has been destroyed
RegisteredAlive(seq, R) ==
  \A i \in DOMAIN seq, j \in DOMAIN R.freed : seq[i].id # R.freed[j].id

\* C14: when the registration function fails, register fails but the new
\* factory is registered: lookup and enumerate return it, registering its
\* name again is rejected as a duplicate, and nothing destroys a registered
\* factory before teardown
C14_FailedInitializerStaysRegistered ==
  [][op'.name = "register_factory" =>
       /\ RegisteredAlive(serializers', registry')
       /\ (op'.hooks # <<>> /\ op'.hooks[1].rc # 0) =>
            LET n == Len(serializers')
                reg == op'.arg[1]
                again == raptor_serializer_register_factory(
                           serializers', registry', n + 1, reg, "none",
                           [finish_factory |-> FALSE, rc |-> 0])
            IN /\ op'.ret # 0
               /\ n = Len(serializers) + 1
               /\ serializers'[n].name = reg.name
               /\ raptor_get_serializer_factory(serializers', reg.name) = n
               /\ raptor_world_enumerate_serializers(serializers', n - 1)
                    = [ret |-> 0,
                       out |-> <<reg.name, reg.label, reg.mime_type,
                                 reg.uri_string>>]
               /\ again.ret # 0
               /\ again.note = "already registered"
               /\ registry' = registry]_vars

PublicFields(f) == <<f.name, f.label, f.mime_type, f.uri_string>>

\* C15: enumerate succeeds exactly for a counter below the number of
\* registered factories and then stores the fields of the factory at that
\* position; factories stand in registration order, and a registration
\* changes neither the position nor the fields of those registered before
C15_EnumerateByIndex ==
  [][/\ op'.name = "enumerate_serializers" =>
          /\ op'.ret = 0 <=> op'.arg[1] < Len(serializers)
          /\ op'.ret = 0 => op'.out = PublicFields(serializers[op'.arg[1] + 1])
     /\ op'.name = "register_factory" =>
          /\ \A i \in 0..(Len(serializers) - 1) :
               raptor_world_enumerate_serializers(serializers', i)
                 = raptor_world_enumerate_serializers(serializers, i)
          /\ \A i, j \in DOMAIN serializers' :
               i < j => serializers'[i].id < serializers'[j].id]_vars

C15_Witness ==
  /\ op.name = "enumerate_serializers"
  /\ op.ret = 0
  /\ op.arg[1] = 1
  /\ op.out = PublicFields(serializers[2])

\* one destruction of factory f: its finish_factory hook runs exactly when it
\* has one and before anything is released, every string it holds and the
\* factory itself are released, and nothing is released twice
DestroyedInOrder(f, events) ==
  /\ f.finish_factory <=> \E k \in DOMAIN events : events[k] = "finish_factory"
  /\ \A k \in DOMAIN events : events[k] = "finish_factory" => k = 1
  /\ \A k, l \in DOMAIN events : events[k] = events[l] => k = l
  /\ \E k \in DOMAIN events : events[k] = "free name"
  /\ \E k \in DOMAIN events : events[k] = "free label"
  /\ f.alias # NULLS => \E k \in DOMAIN events : events[k] = "free alias"
  /\ f.mime_type # NULLS => \E k \in DOMAIN events : events[k] = "free mime_type"
  /\ f.uri_string # NULLS => \E k \in DOMAIN events : events[k] = "free uri_string"
  /\ events[Len(events)] = "free factory"

\* the destructions of the factory with this id
DestroyedAt(R, id) == {j \in DOMAIN R.freed : R.freed[j].id = id}

\* C16: raptor_serializers_finish destroys every registered factory exactly
\* once, its finish_factory hook first, and a second call on the torn-down
\* registry invokes no hook and releases nothing
C16_TeardownDestroysOnce ==
  [][op'.name = "serializers_finish" =>
       IF registry.is_null
       THEN op'.hooks = <<>> /\ UNCHANGED world
       ELSE /\ registry'.is_null
            /\ serializers' = <<>>
            /\ Len(registry'.freed) = Len(registry.freed) + Len(serializers)
            /\ \A i \in DOMAIN serializers :
                 /\ Cardinality(DestroyedAt(registry', serializers[i].id)) = 1
                 /\ \A j \in DestroyedAt(registry', serializers[i].id) :
                      DestroyedInOrder(serializers[i], registry'.freed[j].events)
            /\ Len(op'.hooks)
                 = Cardinality({i \in DOMAIN serializers :
                                  serializers[i].finish_factory})]_vars

\* a second teardown after one that ran a finish_factory hook
C16_Witness ==
  /\ op.name = "serializers_finish"
  /\ op.hooks = <<>>
  /\ registry.is_null
  /\ \E j \in DOMAIN registry.freed :
       registry.freed[j].events[1] = "finish_factory"

\* --------------------------------------------------------- option claims
\* C17: right after every successful raptor_new_serializer, whatever earlier
\* serializers were given, the numeric getter returns write_base_uri 1,
\* relative_uris 1, xml_version 10, write_xml_declaration 1 and
\* prefix_elements 0, the string getter returns NULL for every string option,
\* and no iostream is bound
C17_ConstructDefaults ==
  (op.name = "new" /\ op.ret # NULL) =>
    /\ raptor_serializer_get_option(
         rdf_serializer, "RAPTOR_OPTION_WRITE_BASE_URI") = 1
    /\ raptor_serializer_get_option(
         rdf_serializer, "RAPTOR_OPTION_RELATIVE_URIS") = 1
    /\ raptor_serializer_get_option(
         rdf_serializer, "RAPTOR_OPTION_WRITER_XML_VERSION") = 10
    /\ raptor_serializer_get_option(
         rdf_serializer, "RAPTOR_OPTION_WRITER_XML_DECLARATION") = 1
    /\ raptor_serializer_get_option(
         rdf_serializer, "RAPTOR_OPTION_PREFIX_ELEMENTS") = 0
    /\ \A option \in SerializerOptions \cap StringOptions :
         raptor_serializer_get_option_string(rdf_serializer, option) = NULL
    /\ rdf_serializer.iostream = NULL

\* a construct that follows a serializer which had a string option set
C17_Witness ==
  /\ op.name = "new" /\ op.ret # NULL
  /\ rdf_serializer.id # 0
  /\ strings # <<>>

\* C18: the numeric setter on xml_version with 10 or 11 stores the value, with
\* any other non-negative value succeeds and keeps the prior value, and after
\* every call a serializer's xml_version is 10 or 11
C18_XmlVersionTenOrEleven ==
  [][/\ (/\ op'.name = "set_option"
         /\ op'.arg[1] = "RAPTOR_OPTION_WRITER_XML_VERSION"
         /\ op'.arg[2] >= 0) =>
          /\ op'.ret = 0
          /\ rdf_serializer'.xml_version
               = (IF op'.arg[2] \in {10, 11}
                  THEN op'.arg[2] ELSE rdf_serializer.xml_version)
     /\ rdf_serializer'.id # 0 => rdf_serializer'.xml_version \in {10, 11}]_vars

\* an ignored version after the version had been set to 11
C18_Witness ==
  /\ op.name = "set_option"
  /\ op.arg = <<"RAPTOR_OPTION_WRITER_XML_VERSION", 2>>
  /\ op.ret = 0
  /\ rdf_serializer.xml_version = 11

\* the options the serializer keeps a numeric field for
NumericFieldOptions ==
  {"RAPTOR_OPTION_WRITE_BASE_URI", "RAPTOR_OPTION_RELATIVE_URIS",
   "RAPTOR_OPTION_WRITER_XML_VERSION", "RAPTOR_OPTION_WRITER_XML_DECLARATION",
   "RAPTOR_OPTION_PREFIX_ELEMENTS"}

\* C19: the numeric setter fails with a negative result and changes no option
\* when the value is negative, the option is not a serializer option, or the
\* option has no numeric field, a string option that holds a value included
C19_InvalidNumericSetChangesNothing ==
  [][(/\ op'.name = "set_option"
      /\ \/ op'.arg[2] < 0
         \/ ~raptor_option_is_valid_for_area(op'.arg[1])
         \/ op'.arg[1] \notin NumericFieldOptions) =>
       /\ op'.ret < 0
       /\ rdf_serializer' = rdf_serializer
       /\ strings' = strings]_vars

\* a non-negative value refused for a string option that holds a string
C19_Witness ==
  /\ op.name = "set_option"
  /\ op.arg[1] = "RAPTOR_OPTION_RESOURCE_BORDER"
  /\ op.arg[2] >= 0
  /\ op.ret < 0
  /\ rdf_serializer.option_resource_border # NULL

FlagOptions == NumericFieldOptions \ {"RAPTOR_OPTION_WRITER_XML_VERSION"}

\* the field behind each flag option
FlagField(option) ==
  CASE option = "RAPTOR_OPTION_WRITE_BASE_URI" -> "option_write_base_uri"
    [] option = "RAPTOR_OPTION_RELATIVE_URIS" -> "option_relative_uris"
    [] option = "RAPTOR_OPTION_WRITER_XML_DECLARATION" ->
         "option_write_xml_declaration"
    [] option = "RAPTOR_OPTION_PREFIX_ELEMENTS" -> "option_prefix_elements"

\* C20: the numeric getter returns 0 for a flag option whose value is 0 and 1
\* for any other value set, and a negative result for a string option or an
\* option of another area
C20_GetNumericNormalizesFlags ==
  op.name = "get_option" =>
    /\ op.arg[1] \in FlagOptions =>
         op.ret = NonZero(rdf_serializer[FlagField(op.arg[1])])
    /\ (op.arg[1] \in StringOptions
        \/ ~raptor_option_is_valid_for_area(op.arg[1])) => op.ret < 0

\* ------------------------------------------------------- session claims
NamespaceNames == {"set_namespace", "set_namespace_from_namespace"}

\* the last call invoked exactly this hook with this argument and returned
\* the hook's result
Delegated(call, hook, arg) ==
  /\ Len(call.hooks) = 1
  /\ call.hooks[1].hook = hook
  /\ call.hooks[1].arg = arg
  /\ call.ret = call.hooks[1].rc

\* the call invoked no hook and failed with the layer's own result
NotSupported(call) == call.hooks = <<>> /\ call.ret = 1

\* C23: on a serializer with a bound iostream, a declaration from a namespace
\* object goes to the namespace-object hook when the backend has one and
\* otherwise to the uri/prefix hook with the object's uri and prefix; a
\* declaration by uri and prefix goes to the uri/prefix hook only, an empty
\* prefix passed as no prefix; the call returns the hook's result, and fails
\* without a hook call when the backend has no usable hook
C23_NamespaceDispatch ==
  [][rdf_serializer.iostream # NULL =>
       /\ op'.name = "set_namespace_from_namespace" =>
            IF FactoryOf(rdf_serializer).declare_namespace_from_namespace
            THEN Delegated(op', "declare_namespace_from_namespace", op'.arg[1])
            ELSE IF FactoryOf(rdf_serializer).declare_namespace
            THEN Delegated(op', "declare_namespace",
                           <<op'.arg[1].uri, op'.arg[1].prefix>>)
            ELSE NotSupported(op')
       /\ op'.name = "set_namespace" =>
            IF FactoryOf(rdf_serializer).declare_namespace
            THEN Delegated(op', "declare_namespace",
                           <<op'.arg[1],
                             IF op'.arg[2] = "" THEN NULLS ELSE op'.arg[2]>>)
            ELSE NotSupported(op')]_vars

\* a namespace object declared through the uri/prefix hook
C23_Witness ==
  /\ op.name = "set_namespace_from_namespace"
  /\ rdf_serializer.iostream # NULL
  /\ Delegated(op, "declare_namespace", <<op.arg[1].uri, "dc">>)

\* C24: a statement or namespace hook that fails on a bound serializer only
\* gives the call its result: the serializer (iostream, ownership flag, base
\* URI, options), the URIs, the streams and the option strings are
\* unchanged, and a following raptor_serialize_statement reaches the backend
C24_HookFailureKeepsSession ==
  [][(/\ op'.name \in NamespaceNames \cup {"statement"}
      /\ rdf_serializer.iostream # NULL
      /\ op'.hooks # <<>>
      /\ op'.hooks[1].rc # 0) =>
       /\ op'.ret = op'.hooks[1].rc
       /\ rdf_serializer' = rdf_serializer
       /\ uris' = uris
       /\ streams' = streams
       /\ strings' = strings
       /\ Delegated(CallIO("statement",
                      raptor_serialize_statement(
                        rdf_serializer', uris', streams', 0).ret,
                      raptor_serialize_statement(
                        rdf_serializer', uris', streams', 0).hooks,
                      "", <<>>, <<>>),
                    "serialize_statement", NULLS)]_vars

C24_Witness ==
  /\ op.name = "statement"
  /\ op.hooks # <<>>
  /\ op.ret = 2
  /\ rdf_serializer.iostream # NULL

\* C25: no base-URI reference is released twice, neither base_uri nor the
\* locator refers to a released one, and when raptor_free_serializer has
\* returned every reference taken has been released
C25_BaseUriLive ==
  /\ \A i \in DOMAIN uris : uris[i].frees <= 1
  /\ rdf_serializer.base_uri # NULL => uris[rdf_serializer.base_uri].frees = 0
  /\ rdf_serializer.locator.uri # NULL =>
       uris[rdf_serializer.locator.uri].frees = 0
  /\ op.name = "free" => \A i \in DOMAIN uris : uris[i].frees = 1

\* the string value of the serializer's base URI, NULLS when it has none
BaseUriValue(s, U) == IF s.base_uri = NULL THEN NULLS ELSE U[s.base_uri].val

\* the base URI is none or a reference the call has just taken
FreshCopy(s, U, before) ==
  s.base_uri # NULL => (s.base_uri > Len(before) /\ U[s.base_uri].frees = 0)

\* C26 as stated: after a successful start the locator is (base URI, 0, 0);
\* start_to_iostream holds a copy of its uri, start_to_filename a URI made
\* from the file name, start_to_string and start_to_file_handle no base URI
C26_BufferAndHandleHaveNoBaseUri ==
  [][(op'.name \in StartNames /\ op'.ret = 0) =>
       /\ rdf_serializer'.locator
            = [uri |-> rdf_serializer'.base_uri, line |-> 0, column |-> 0]
       /\ FreshCopy(rdf_serializer', uris', uris)
       /\ op'.name = "start_to_iostream" =>
            BaseUriValue(rdf_serializer', uris') = op'.arg[1]
       /\ op'.name = "start_to_filename" =>
            BaseUriValue(rdf_serializer', uris')
              = raptor_uri_filename_to_uri_string(op'.arg[1])
       /\ op'.name \in {"start_to_string", "start_to_file_handle"} =>
            rdf_serializer'.base_uri = NULL]_vars

\* C26 amended: start_to_iostream, start_to_string and start_to_file_handle
\* all hold a copy of their uri argument (none for NULL), start_to_filename
\* a URI made from the file name or none when raptor_new_uri returns NULL
C26_StartSetsBaseUri ==
  [][(op'.name \in StartNames /\ op'.ret = 0) =>
       /\ rdf_serializer'.locator
            = [uri |-> rdf_serializer'.base_uri, line |-> 0, column |-> 0]
       /\ FreshCopy(rdf_serializer', uris', uris)
       /\ op'.name \in StartNames \ {"start_to_filename"} =>
            BaseUriValue(rdf_serializer', uris') = op'.arg[1]
       /\ op'.name = "start_to_filename" =>
            BaseUriValue(rdf_serializer', uris')
              \in {raptor_uri_filename_to_uri_string(op'.arg[1]), NULLS}]_vars

\* a memory-buffer start that holds a copy of the caller's uri
C26_Witness ==
  /\ op.name = "start_to_string"
  /\ op.ret = 0
  /\ op.arg[1] # NULLS
  /\ BaseUriValue(rdf_serializer, uris) = op.arg[1]

\* -------------------------------------------------- string option claims
StringKindOptions == SerializerOptions \cap StringOptions

\* C21: a successful raptor_serializer_set_option_string on a string option
\* makes the string getter return a live buffer holding exactly the value
\* passed, leaves every other string option and its buffer as they were, and
\* releases the buffer the option held before; no buffer is ever released
\* twice, and after raptor_free_serializer none is left unreleased
C21_SecondValueReplacesFirst ==
  [][/\ (/\ op'.name = "set_option_string"
         /\ op'.arg[1] \in StringKindOptions
         /\ op'.ret = 0) =>
          LET o == op'.arg[1]
              old == rdf_serializer[StringFieldOf(o)]
              new == raptor_serializer_get_option_string(rdf_serializer', o)
          IN /\ new # NULL
             /\ new \notin DOMAIN strings
             /\ strings'[new] = [val |-> op'.arg[2], frees |-> 0]
             /\ \A o2 \in StringKindOptions \ {o} :
                  raptor_serializer_get_option_string(rdf_serializer', o2)
                    = raptor_serializer_get_option_string(rdf_serializer, o2)
             /\ old # NULL => strings'[old].frees = 1
             /\ \A i \in DOMAIN strings \ {old} : strings'[i] = strings[i]
     /\ \A i \in DOMAIN strings' : strings'[i].frees <= 1
     /\ op'.name = "free" =>
          \A i \in DOMAIN strings' : strings'[i].frees = 1]_vars

\* an option holding "blue" after its buffer for "red" was released
C21_Witness ==
  /\ op.name = "set_option_string"
  /\ op.ret = 0
  /\ op.arg[1] = "RAPTOR_OPTION_RESOURCE_BORDER"
  /\ op.arg[2] # NULLS
  /\ op.arg[2] = <<"b", "l", "u", "e">>
  /\ Len(strings) = 2
  /\ strings[1] = [val |-> <<"r", "e", "d">>, frees |-> 1]
  /\ rdf_serializer.option_resource_border = 2

\* the number a decimal string denotes, read from its last digit
RECURSIVE DecimalMagnitude(_)
DecimalMagnitude(str) ==
  IF str = <<>> THEN 0
  ELSE 10 * DecimalMagnitude(SubSeq(str, 1, Len(str) - 1))
         + DigitVal(str[Len(str)])

DecimalValue(str) ==
  IF str[1] = "-" THEN 0 - DecimalMagnitude(Tail(str))
  ELSE DecimalMagnitude(str)

\* C22: the string setter on a numeric option of the serializer area returns
\* what the numeric setter returns for the number the string denotes and
\* leaves the serializer as the numeric setter would, no string field or
\* buffer touched; with a NULL value or an option of another area it fails
\* and changes nothing
C22_StringSetForwardsToNumeric ==
  [][op'.name = "set_option_string" =>
       /\ (op'.arg[2] = NULLS
           \/ ~raptor_option_is_valid_for_area(op'.arg[1])) =>
            /\ op'.ret < 0
            /\ rdf_serializer' = rdf_serializer
            /\ strings' = strings
       /\ (/\ op'.arg[2] # NULLS
           /\ raptor_option_is_valid_for_area(op'.arg[1])
           /\ raptor_option_value_is_numeric(op'.arg[1])) =>
            LET numeric == raptor_serializer_set_option(
                             rdf_serializer, strings, op'.arg[1],
                             DecimalValue(op'.arg[2]))
            IN /\ op'.ret = numeric.ret
               /\ rdf_serializer' = numeric.s
               /\ \A f \in StringFields : rdf_serializer'[f] = rdf_serializer[f]
               /\ strings' = strings]_vars

\* "11" given to the string setter for xml_version
C22_Witness ==
  /\ op.name = "set_option_string"
  /\ op.arg[1] = "RAPTOR_OPTION_WRITER_XML_VERSION"
  /\ op.arg[2] # NULLS
  /\ op.arg[2] = <<"1", "1">>
  /\ op.ret = 0
  /\ rdf_serializer.xml_version = 11

\* C27: every numeric field of a serializer is at least 0, so a negative
\* result of the numeric getter is never a stored value: it occurs only for
\* an option without a numeric field
C27_NumericOptionsNonNegative ==
  /\ rdf_serializer.id # 0 =>
       /\ rdf_serializer.option_write_base_uri >= 0
       /\ rdf_serializer.option_relative_uris >= 0
       /\ rdf_serializer.xml_version >= 0
       /\ rdf_serializer.option_write_xml_declaration >= 0
       /\ rdf_serializer.option_prefix_elements >= 0
  /\ (op.name = "get_option" /\ op.ret < 0) =>
       op.arg[1] \notin NumericFieldOptions

\* "-1" refused by the string setter for an option that holds 2
C27_Witness ==
  /\ op.name = "set_option_string"
  /\ op.arg[1] = "RAPTOR_OPTION_PREFIX_ELEMENTS"
  /\ op.arg[2] # NULLS
  /\ op.arg[2] = <<"-", "1">>
  /\ op.ret < 0
  /\ rdf_serializer.option_prefix_elements = 2

\* the fields that hold option values
OptionFields ==
  StringFields \cup {"option_write_base_uri", "option_relative_uris",
                     "xml_version", "option_write_xml_declaration",
                     "option_prefix_elements"}

\* C28: no start (whichever binding, succeeding or failing), namespace
\* declaration, raptor_serialize_statement or raptor_serialize_end changes a
\* numeric option, a string option or an option string's buffer
C28_SessionKeepsOptions ==
  [][op'.name \in StartNames \cup NamespaceNames \cup {"statement", "end"} =>
       /\ \A f \in OptionFields : rdf_serializer'[f] = rdf_serializer[f]
       /\ strings' = strings]_vars

\* a start after an end on a serializer configured to xml_version 11 and a
\* resource border
C28_Witness ==
  /\ op.name \in StartNames
  /\ op.ret = 0
  /\ rdf_serializer.xml_version = 11
  /\ rdf_serializer.option_resource_border # NULL
  /\ \E i \in DOMAIN streams : streams[i].closes = 1

====
